---- MODULE Spec2Model ----
(***************************************************************************)
(* A state-machine model of spoof_bot.py: the image variation pipeline     *)
(* (generate_variations), the video pipeline (process_video_variations,    *)
(* create_video_variation), the chat-session handlers                      *)
(* (handle_count_selection, handle_photo, handle_video, handle_choice)     *)
(* and the archive handler (zip_handler).                                  *)
(*                                                                         *)
(* Four specifications share the module:                                   *)
(*   SpecCore  one call of generate_variations, or one call of             *)
(*             process_video_variations, over every input and count        *)
(*   SpecTemp  two concurrent calls of process_video_variations sharing    *)
(*             one temporary file system                                   *)
(*   Spec      one user's session: the handlers run one update at a time   *)
(*   SpecZip   one run of zip_handler over an input archive                *)
(***************************************************************************)
EXTENDS Integers, Sequences, FiniteSets, TLC

VARIABLES
    \* ---- generate_variations (lines 45-106) ----
    img_pc,          \* position in the function
    img_input,       \* input_bytes
    img_count,       \* variation_count
    img_i,           \* loop counter of `for _ in range(variation_count)`
    img_modified,    \* `modified`: the operations whose result the image holds
    img_enhancers,   \* the image the four ImageEnhance objects were built on
    img_log,         \* the operations executed in the current iteration
    img_variations,  \* `variations`
    img_result       \* what the call handed to its caller

img_vars == <<img_pc, img_input, img_count, img_i, img_modified,
              img_enhancers, img_log, img_variations, img_result>>

VARIABLES
    \* ---- process_video_variations (lines 109-154) ----
    VIDEO_SUPPORT,   \* the module flag set by the moviepy import (lines 14-19)
    vid,             \* per request: the locals of one call
    tmpfs            \* the temporary file system: directory name -> its record

vid_vars == <<VIDEO_SUPPORT, vid, tmpfs>>

VARIABLES
    \* ---- one user's session (lines 242-354) ----
    user_data,       \* context.user_data: a dict with the keys of DOMAIN user_data
    uploads,         \* photo updates handled so far; numbers each upload's bytes
    keyboards,       \* "Select your favorite" messages that still show their
                     \* buttons: message (numbered like its upload) -> buttons
    last             \* the update handled last and what the bot sent for it

ses_vars == <<user_data, uploads, keyboards, last>>

VARIABLES
    \* ---- zip_handler (lines 357-389) ----
    zip_pc,          \* position in the handler
    doc_file_name,   \* update.message.document.file_name
    zin,             \* the entries of the uploaded archive, in archive order
    zip_k,           \* entries of zin.namelist() the loop has gone through
    zout,            \* the entries written to the output archive so far
    zip_error,       \* what raised, when the handler was left by an exception
    zip_reply        \* the document sent back

zip_vars == <<zip_pc, doc_file_name, zin, zip_k, zout, zip_error, zip_reply>>

vars == <<img_vars, vid_vars, ses_vars, zip_vars>>

\* The /start menu offers range(1,6).
MinCount == 1
MaxCount == 5

Counts == MinCount..MaxCount

\* ------------------------------------------------------------------------
\* generate_variations
\* ------------------------------------------------------------------------

\* Inputs: bytes PIL decodes, and bytes it does not.
ImageInputs == {"image", "junk"}

\* Image.open(io.BytesIO(input_bytes)) succeeds.
DecodesAsImage(d) == d = "image"

\* random.choice([ImageFilter.SMOOTH, ImageFilter.DETAIL, ImageFilter.SHARPEN])
Filters == {"SMOOTH", "DETAIL", "SHARPEN"}

\* The loop body, in statement order, with the noise step misplaced before
\* the translation.
PipelineNoiseBeforeTranslate ==
    <<"resize", "rotate", "jitter", "noise", "translate", "enhancers",
      "brightness", "contrast", "color", "sharpness", "filter", "save">>

\* The loop body of generate_variations in statement order.
Pipeline ==
    <<"resize", "rotate", "jitter", "translate", "enhancers",
      "brightness", "contrast", "color", "sharpness", "filter", "noise", "save">>

StepIndex(s) == CHOOSE k \in 1..Len(Pipeline) : Pipeline[k] = s

\* The statement after step s; after the last one the loop header.
AfterStep(s) ==
    IF StepIndex(s) = Len(Pipeline) THEN "loop" ELSE Pipeline[StepIndex(s) + 1]

EnhancePasses == {"brightness", "contrast", "color", "sharpness"}

\* The encoded buffer of one variation.
ImageBuffer(src, iter, log, lineage) ==
    [format |-> "JPEG", src |-> src, iter |-> iter, steps |-> log, lineage |-> lineage]

NoResult == [kind |-> "none"]
ErrorResult == [kind |-> "error"]
ListResult(l) == [kind |-> "list", value |-> l]

\* A failed variation skipped: the loop goes on with the next one.
SkipFailedVariation ==
    /\ img_pc' = "loop"
    /\ img_i' = img_i + 1
    /\ UNCHANGED <<img_input, img_count, img_modified, img_enhancers, img_log,
                   img_variations, img_result>>

\* An exception in the loop body: no handler in generate_variations, so it
\* leaves the function and the list built so far is dropped.
RaiseFromVariation ==
    /\ img_pc' = "raised"
    /\ img_result' = ErrorResult
    /\ UNCHANGED <<img_input, img_count, img_i, img_modified, img_enhancers,
                   img_log, img_variations>>

\* Lines 46-51: decode, convert to RGB, copy; variations = [].
ImgOpen ==
    /\ img_pc = "open"
    /\ IF DecodesAsImage(img_input)
       THEN /\ img_pc' = "loop"
            /\ img_variations' = <<>>
            /\ img_i' = 0
            /\ UNCHANGED <<img_result>>
       ELSE /\ img_pc' = "raised"
            /\ img_result' = ErrorResult
            /\ UNCHANGED <<img_variations, img_i>>
    /\ UNCHANGED <<img_input, img_count, img_modified, img_enhancers, img_log>>

\* Line 53-54 and 106: the loop header; `modified = img.copy()` or return.
ImgLoop ==
    /\ img_pc = "loop"
    /\ IF img_i < img_count
       THEN /\ img_pc' = Pipeline[1]
            /\ img_modified' = <<>>
            /\ img_enhancers' = <<>>
            /\ img_log' = <<>>
            /\ UNCHANGED <<img_result>>
       ELSE /\ img_pc' = "returned"
            /\ img_result' = ListResult(img_variations)
            /\ UNCHANGED <<img_modified, img_enhancers, img_log>>
    /\ UNCHANGED <<img_input, img_count, img_i, img_variations>>

\* Lines 56-104: one statement group of the loop body succeeds.
ImgStepOk ==
    /\ img_pc \in {Pipeline[k] : k \in 1..Len(Pipeline)}
    /\ img_pc' = AfterStep(img_pc)
    /\ img_result' = img_result
    /\ UNCHANGED <<img_input, img_count>>
    /\ CASE img_pc \in {"resize", "rotate", "jitter", "translate", "noise"} ->
              /\ img_modified' = Append(img_modified, img_pc)
              /\ img_log' = Append(img_log, img_pc)
              /\ UNCHANGED <<img_enhancers, img_variations, img_i>>
         [] img_pc = "enhancers" ->
              \* lines 81-86: all four enhancers are built on the same image
              /\ img_enhancers' = img_modified
              /\ UNCHANGED <<img_modified, img_log, img_variations, img_i>>
         [] img_pc \in EnhancePasses ->
              \* line 88: en.enhance acts on the image en was built on
              /\ img_modified' = Append(img_enhancers, img_pc)
              /\ img_log' = Append(img_log, img_pc)
              /\ UNCHANGED <<img_enhancers, img_variations, img_i>>
         [] img_pc = "filter" ->
              \E f \in Filters :
                 /\ img_modified' = Append(img_modified, f)
                 /\ img_log' = Append(img_log, f)
                 /\ UNCHANGED <<img_enhancers, img_variations, img_i>>
         [] img_pc = "save" ->
              /\ img_variations' =
                    Append(img_variations,
                           ImageBuffer(img_input, img_i, Append(img_log, "save"),
                                       Append(img_modified, "save")))
              /\ img_i' = img_i + 1
              /\ UNCHANGED <<img_modified, img_enhancers, img_log>>

\* Lines 56-104: a statement of the loop body raises (a zero-sized resize,
\* MemoryError, an encoder error).
ImgStepFail ==
    /\ img_pc \in {Pipeline[k] : k \in 1..Len(Pipeline)}
    /\ RaiseFromVariation

ImgIdle ==
    /\ img_pc = "absent"
    /\ img_input = "junk"
    /\ img_count = MinCount
    /\ img_i = 0
    /\ img_modified = <<>>
    /\ img_enhancers = <<>>
    /\ img_log = <<>>
    /\ img_variations = <<>>
    /\ img_result = NoResult

ImgCall ==
    /\ img_pc = "open"
    /\ img_input \in ImageInputs
    /\ img_count \in Counts
    /\ img_i = 0
    /\ img_modified = <<>>
    /\ img_enhancers = <<>>
    /\ img_log = <<>>
    /\ img_variations = <<>>
    /\ img_result = NoResult


\* ------------------------------------------------------------------------
\* process_video_variations, create_video_variation
\* ------------------------------------------------------------------------

\* The calls that may be in flight at once (two bot processes on one host,
\* or two worker threads): both share the temporary file system.
Requests == {"r1", "r2"}

\* The directory names mkdtemp can draw.
NumDirs == 3
DirNames == 1..NumDirs
NoDir == 0

\* `max_duration = 30  # seconds` in create_video_variation.
max_duration == 30

\* Clips by what matters to the pipeline: whether VideoFileClip decodes the
\* bytes, and the clip's duration in seconds.
VideoInputs ==
    {[decodes |-> TRUE, duration |-> 10],
     [decodes |-> TRUE, duration |-> 40],
     [decodes |-> FALSE, duration |-> 0]}

NoClip == [effect |-> "none", cropped |-> FALSE, duration |-> 0]

\* The effect class chosen by variation_index modulo 4.
EffectClassModulo4(variation_index) ==
    CASE variation_index % 4 = 0 -> "colorx"
      [] variation_index % 4 = 1 -> "lum_contrast"
      [] variation_index % 4 = 2 -> "gamma_corr"
      [] OTHER -> "colorx+lum_contrast"

\* The if/elif/else chain of create_video_variation (lines 160-180).
EffectClass(variation_index) ==
    IF variation_index = 0 THEN "colorx"
    ELSE IF variation_index = 1 THEN "lum_contrast"
    ELSE IF variation_index = 2 THEN "gamma_corr"
    ELSE "colorx+lum_contrast"

\* Lines 196-198: subclip(0, max_duration) when the clip is longer.
ClampDuration(d) == IF d > max_duration THEN max_duration ELSE d

\* create_video_variation(clip, variation_index); crop is the outcome of
\* `random.random() > 0.5`.
create_video_variation(clip, variation_index, crop) ==
    [effect |-> EffectClass(variation_index),
     cropped |-> crop,
     duration |-> ClampDuration(clip.duration)]

OutputFile(i) == <<"output", i>>
InputFile == <<"input_video.mp4">>

\* The bytes read back from output_<i>.mp4.
VideoBuffer(i, clip) ==
    [format |-> "mp4", idx |-> i, effect |-> clip.effect, duration |-> clip.duration]

\* tempfile.TemporaryDirectory(): mkdtemp creates a directory that did not
\* exist (it retries on FileExistsError).
FreshDirNames(fs) == DirNames \ DOMAIN fs

\* The directory removed only when the block ended normally.
TemporaryDirectoryExitOnSuccessOnly(fs, d, failed) ==
    IF failed THEN fs ELSE [x \in DOMAIN fs \ {d} |-> fs[x]]

\* TemporaryDirectory.__exit__: the directory and all it holds are removed,
\* whether or not the block raised.
TemporaryDirectoryExit(fs, d, failed) == [x \in DOMAIN fs \ {d} |-> fs[x]]

VidSet(r, rec) == vid' = [vid EXCEPT ![r] = rec]

WithFiles(fs, d, files) == [fs EXCEPT ![d] = [@ EXCEPT !.files = files]]

\* Lines 111-114: the VIDEO_SUPPORT check; variations = [].
VidCall(r) ==
    /\ vid[r].pc = "call"
    /\ IF VIDEO_SUPPORT
       THEN VidSet(r, [vid[r] EXCEPT !.pc = "mkdtemp", !.variations = <<>>])
       ELSE VidSet(r, [vid[r] EXCEPT !.pc = "raised", !.result = ErrorResult])
    /\ UNCHANGED <<VIDEO_SUPPORT, tmpfs>>

\* Line 117: entering the with block creates the directory.
VidMkdtemp(r) ==
    /\ vid[r].pc = "mkdtemp"
    /\ \E d \in FreshDirNames(tmpfs) :
          /\ tmpfs' = (d :> [owner |-> r, files |-> {}]) @@ tmpfs
          /\ VidSet(r, [vid[r] EXCEPT !.pc = "write_input", !.temp_dir = d])
    /\ UNCHANGED VIDEO_SUPPORT

\* Lines 118-122: the input bytes are written to input_video.mp4; a failed
\* write (disk full) raises outside the try block.
VidWriteInput(r) ==
    /\ vid[r].pc = "write_input"
    /\ \E ok \in BOOLEAN :
          /\ tmpfs' = WithFiles(tmpfs, vid[r].temp_dir, {InputFile})
          /\ VidSet(r, [vid[r] EXCEPT !.pc = IF ok THEN "load" ELSE "exit_err"])
    /\ UNCHANGED VIDEO_SUPPORT

\* Line 126: clip = mpy.VideoFileClip(input_path).
VidLoad(r) ==
    /\ vid[r].pc = "load"
    /\ IF vid[r].input.decodes
       THEN VidSet(r, [vid[r] EXCEPT !.pc = "loop", !.i = 0])
       ELSE VidSet(r, [vid[r] EXCEPT !.pc = "except"])
    /\ UNCHANGED <<VIDEO_SUPPORT, tmpfs>>

\* Line 128 and 148: the loop header; after the last variation clip.close().
VidLoop(r) ==
    /\ vid[r].pc = "loop"
    /\ IF vid[r].i < vid[r].count
       THEN VidSet(r, [vid[r] EXCEPT !.pc = "create"])
       ELSE VidSet(r, [vid[r] EXCEPT !.pc = "exit_ok"])
    /\ UNCHANGED <<VIDEO_SUPPORT, tmpfs>>

\* Line 130: processed_clip = create_video_variation(clip, i).
VidCreate(r) ==
    /\ vid[r].pc = "create"
    /\ \/ \E crop \in BOOLEAN :
             VidSet(r, [vid[r] EXCEPT
                          !.pc = "export",
                          !.clip = create_video_variation(vid[r].input, vid[r].i, crop)])
       \/ VidSet(r, [vid[r] EXCEPT !.pc = "except"])
    /\ UNCHANGED <<VIDEO_SUPPORT, tmpfs>>

\* Lines 133-136: export_video_with_metadata writes output_<i>.mp4; a failed
\* export may leave a partly written file behind.
VidExport(r) ==
    /\ vid[r].pc = "export"
    /\ LET d == vid[r].temp_dir
           written == tmpfs[d].files \cup {OutputFile(vid[r].i)}
       IN \/ /\ tmpfs' = WithFiles(tmpfs, d, written)
             /\ VidSet(r, [vid[r] EXCEPT !.pc = "collect"])
          \/ /\ tmpfs' \in {tmpfs, WithFiles(tmpfs, d, written)}
             /\ VidSet(r, [vid[r] EXCEPT !.pc = "except"])
    /\ UNCHANGED VIDEO_SUPPORT

\* Lines 139-145: the file is read into variations, the processed clip is
\* closed and the file removed.
VidCollect(r) ==
    /\ vid[r].pc = "collect"
    /\ LET d == vid[r].temp_dir
       IN \/ /\ tmpfs' = WithFiles(tmpfs, d, tmpfs[d].files \ {OutputFile(vid[r].i)})
             /\ VidSet(r, [vid[r] EXCEPT
                             !.pc = "loop",
                             !.variations = Append(@, VideoBuffer(vid[r].i, vid[r].clip)),
                             !.clip = NoClip,
                             !.i = @ + 1])
          \/ /\ UNCHANGED tmpfs
             /\ VidSet(r, [vid[r] EXCEPT !.pc = "except"])
    /\ UNCHANGED VIDEO_SUPPORT

\* Lines 150-152: the handler logs the error and raises it again.
VidExcept(r) ==
    /\ vid[r].pc = "except"
    /\ VidSet(r, [vid[r] EXCEPT !.pc = "exit_err"])
    /\ UNCHANGED <<VIDEO_SUPPORT, tmpfs>>

\* Lines 117 and 154: the with block ends; on the normal path the function
\* returns variations, on the other the exception leaves it.
VidExit(r) ==
    /\ vid[r].pc \in {"exit_ok", "exit_err"}
    /\ LET failed == vid[r].pc = "exit_err"
       IN /\ tmpfs' = TemporaryDirectoryExit(tmpfs, vid[r].temp_dir, failed)
          /\ IF failed
             THEN VidSet(r, [vid[r] EXCEPT !.pc = "raised", !.result = ErrorResult])
             ELSE VidSet(r, [vid[r] EXCEPT
                               !.pc = "returned",
                               !.result = ListResult(vid[r].variations)])
    /\ UNCHANGED VIDEO_SUPPORT

VidLocals(pc, input, count) ==
    [pc |-> pc, input |-> input, count |-> count, i |-> 0, clip |-> NoClip,
     variations |-> <<>>, temp_dir |-> NoDir, result |-> NoResult]

VidAbsent == VidLocals("absent", CHOOSE v \in VideoInputs : ~v.decodes, MinCount)

VidIdle ==
    /\ vid = [r \in Requests |-> VidAbsent]
    /\ tmpfs = <<>>

\* One call, over every input and every count of the menu.
VidSingleCall ==
    /\ VIDEO_SUPPORT \in BOOLEAN
    /\ \E v \in VideoInputs, c \in Counts :
          vid = [r \in Requests |-> IF r = "r1" THEN VidLocals("call", v, c) ELSE VidAbsent]
    /\ tmpfs = <<>>

\* The largest count of the calls that run side by side.
MaxConcurrentCount == 2

\* Two calls in flight at once.
VidConcurrentCalls ==
    /\ VIDEO_SUPPORT = TRUE
    /\ vid \in [Requests -> {VidLocals("call", v, c) :
                                v \in VideoInputs, c \in MinCount..MaxConcurrentCount}]
    /\ tmpfs = <<>>


\* ------------------------------------------------------------------------
\* The session handlers: handle_count_selection, handle_photo, handle_video,
\* handle_choice.  The application is built without concurrent_updates, so
\* one handler runs to its end before the next update is taken.
\* ------------------------------------------------------------------------

\* Photo uploads of one run.
MaxUploads == 2

\* dict operations on context.user_data
Has(d, k) == k \in DOMAIN d
Put(d, k, v) == (k :> v) @@ d
Pop(d, k) == [x \in DOMAIN d \ {k} |-> d[x]]

Digits == <<"0", "1", "2", "3", "4", "5", "6", "7", "8", "9">>
IsDigit(c) == \E k \in 1..10 : Digits[k] = c
DigitValue(c) == (CHOOSE k \in 1..10 : Digits[k] = c) - 1

RECURSIVE ParseNat(_)
ParseNat(t) ==
    IF t = <<>> THEN 0
    ELSE 10 * ParseNat(SubSeq(t, 1, Len(t) - 1)) + DigitValue(t[Len(t)])

AllDigits(t) == t # <<>> /\ \A k \in 1..Len(t) : IsDigit(t[k])

\* int(text): an optional sign and decimal digits; anything else raises
\* ValueError.
ParseInt(t) ==
    IF AllDigits(t) THEN [ok |-> TRUE, value |-> ParseNat(t)]
    ELSE IF t # <<>> /\ t[1] = "-" /\ AllDigits(Tail(t))
         THEN [ok |-> TRUE, value |-> 0 - ParseNat(Tail(t))]
    ELSE IF t # <<>> /\ t[1] = "+" /\ AllDigits(Tail(t))
         THEN [ok |-> TRUE, value |-> ParseNat(Tail(t))]
    ELSE [ok |-> FALSE, value |-> 0]

RECURSIVE FormatNat(_)
FormatNat(n) ==
    IF n < 10 THEN <<Digits[n + 1]>>
    ELSE Append(FormatNat(n \div 10), Digits[(n % 10) + 1])

\* The f-string rendering of an int, as in f"count_{i}" and f"choose_{i-1}".
FormatInt(n) == IF n < 0 THEN <<"-">> \o FormatNat(0 - n) ELSE FormatNat(n)

\* What follows "count_" in a callback's data: the five buttons of the
\* /start menu (line 243), and data a client made up.
MenuCountTexts == {FormatInt(i) : i \in MinCount..MaxCount}
CraftedCountTexts == {<<"0">>, <<"6">>, <<"-", "1">>, <<"x">>}
CountTexts == MenuCountTexts \cup CraftedCountTexts

\* What follows "choose_" in data a client made up.
CraftedChoiceTexts == {<<"-", "1">>, <<"7">>, <<"x">>}

\* The buffers generate_variations returns for upload `src`: one per
\* iteration of range(variation_count), none when the count is negative.
SessionBuffer(src, iter) == [format |-> "JPEG", src |-> src, iter |-> iter]
generate_variations(src, variation_count) ==
    [k \in 1..variation_count |-> SessionBuffer(src, k - 1)]

\* The buffers process_video_variations returns.
process_video_variations(duration, variation_count) ==
    [k \in 1..variation_count |->
        VideoBuffer(k - 1, create_video_variation([duration |-> duration], k - 1, FALSE))]

\* The caption handle_video puts on the idx-th video sent (lines 316-324).
Caption(idx) ==
    IF idx = 1 THEN "Color adjusted"
    ELSE IF idx = 2 THEN "Brightness/Contrast"
    ELSE IF idx = 3 THEN "Gamma corrected"
    ELSE "Mixed effects"

Event(op, reply, sent) ==
    [op |-> op, reply |-> reply, sent |-> sent,
     has_count |-> FALSE, count |-> 0, msg |-> 0, idx |-> 0, genuine |-> FALSE]

\* Lines 242-245: /start sends the menu of five count buttons.
start ==
    /\ last' = Event("start", "menu", <<>>)
    /\ UNCHANGED <<user_data, uploads, keyboards>>

\* Lines 247-257.
handle_count_selection(text) ==
    /\ LET parsed == ParseInt(text)
       IN IF parsed.ok
          THEN /\ user_data' = Put(user_data, "variation_count", parsed.value)
               /\ last' = [Event("count", "send_me_a_photo", <<>>) EXCEPT
                             !.has_count = TRUE, !.count = parsed.value]
          ELSE /\ user_data' = user_data
               /\ last' = Event("count", "invalid_choice", <<>>)
    /\ UNCHANGED <<uploads, keyboards>>

\* Lines 260-286; `decodes`: the uploaded bytes decode as an image, `ok`: no
\* step of the pipeline raises.
handle_photo(decodes, ok) ==
    /\ uploads < MaxUploads
    /\ uploads' = uploads + 1
    /\ IF ~Has(user_data, "variation_count") \/ user_data["variation_count"] = 0
       THEN /\ last' = [Event("photo", "use_start_first", <<>>) EXCEPT
                          !.has_count = Has(user_data, "variation_count")]
            /\ UNCHANGED <<user_data, keyboards>>
       ELSE LET count == user_data["variation_count"]
                variations == generate_variations(uploads', count)
            IN IF decodes /\ ok
               THEN /\ user_data' = Put(user_data, "variations", variations)
                    /\ keyboards' = Put(keyboards, uploads',
                                        IF count > 0 THEN count ELSE 0)
                    /\ last' = [Event("photo", "select_your_favorite", variations)
                                  EXCEPT !.has_count = TRUE, !.count = count,
                                         !.msg = uploads']
               ELSE \* the exception leaves the handler: nothing is sent
                    /\ last' = [Event("photo", "exception", <<>>) EXCEPT
                                  !.has_count = TRUE, !.count = count]
                    /\ UNCHANGED <<user_data, keyboards>>

\* Lines 289-341; `decodes`, `ok` as in handle_photo.
handle_video(clip, ok) ==
    /\ UNCHANGED <<user_data, uploads, keyboards>>
    /\ IF ~VIDEO_SUPPORT
       THEN last' = Event("video", "video_not_available", <<>>)
       ELSE LET has == Has(user_data, "variation_count")
                variation_count == IF has THEN user_data["variation_count"] ELSE 1
                variations == process_video_variations(clip.duration, variation_count)
            IN IF variation_count = 0
               THEN last' = [Event("video", "use_start_first", <<>>) EXCEPT
                               !.has_count = has]
               ELSE IF clip.decodes /\ ok
               THEN last' = [Event("video", "processing_complete",
                                   [k \in 1..Len(variations) |->
                                      [video |-> variations[k], caption |-> Caption(k)]])
                               EXCEPT !.has_count = has, !.count = variation_count]
               ELSE last' = [Event("video", "video_error", <<>>) EXCEPT
                               !.has_count = has, !.count = variation_count]

\* The stored batch left in place after a choice.
KeepVariations(d) == d

\* Line 353: context.user_data.pop("variations", None).
PopVariations(d) == Pop(d, "variations")

\* Lines 343-354; the callback comes from message msg with data
\* "choose_" + text.
handle_choice(msg, text) ==
    /\ UNCHANGED uploads
    /\ LET parsed == ParseInt(text)
           idx == parsed.value
           genuine == /\ parsed.ok
                      /\ Has(keyboards, msg)
                      /\ 0 <= idx /\ idx < keyboards[msg]
                      /\ text = FormatInt(idx)
           ev(reply, sent) == [Event("choice", reply, sent) EXCEPT
                                 !.msg = msg, !.idx = idx, !.genuine = genuine]
       IN IF ~parsed.ok
          THEN \* int() raises ValueError and the handler ends there
               /\ last' = ev("exception", <<>>)
               /\ UNCHANGED <<user_data, keyboards>>
          ELSE IF \/ ~Has(user_data, "variations")
                  \/ Len(user_data["variations"]) = 0
                  \/ idx < 0
                  \/ idx >= Len(user_data["variations"])
          THEN /\ last' = ev("variation_expired", <<>>)
               /\ UNCHANGED <<user_data, keyboards>>
          ELSE /\ last' = ev("you_picked", <<user_data["variations"][idx + 1]>>)
               /\ user_data' = PopVariations(user_data)
               /\ keyboards' = Pop(keyboards, msg)

\* A press of a button the bot put under message msg.
PressChoose ==
    \E msg \in DOMAIN keyboards :
       \E i \in 1..keyboards[msg] : handle_choice(msg, FormatInt(i - 1))

\* A choose callback whose data the client made up.
CraftedChoose ==
    \E msg \in DOMAIN keyboards \cup {0} :
       \E text \in CraftedChoiceTexts : handle_choice(msg, text)

SesIdle ==
    /\ user_data = <<>>
    /\ uploads = 0
    /\ keyboards = <<>>
    /\ last = Event("none", "none", <<>>)


\* ------------------------------------------------------------------------
\* zip_handler.  Names are sequences of characters, so that endswith, lower
\* and rsplit are computed as Python computes them.
\* ------------------------------------------------------------------------

\* Entries of an input archive.
MaxEntries == 3

UpperCase == <<"A", "B", "C", "D", "E", "F", "G", "H", "I", "J", "K", "L", "M",
               "N", "O", "P", "Q", "R", "S", "T", "U", "V", "W", "X", "Y", "Z">>
LowerCase == <<"a", "b", "c", "d", "e", "f", "g", "h", "i", "j", "k", "l", "m",
               "n", "o", "p", "q", "r", "s", "t", "u", "v", "w", "x", "y", "z">>

\* str.lower()
LowerChar(c) ==
    IF \E k \in 1..26 : UpperCase[k] = c
    THEN LowerCase[CHOOSE k \in 1..26 : UpperCase[k] = c]
    ELSE c
Lower(t) == [k \in 1..Len(t) |-> LowerChar(t[k])]

\* str.endswith(suffix)
EndsWith(t, suffix) ==
    /\ Len(t) >= Len(suffix)
    /\ SubSeq(t, Len(t) - Len(suffix) + 1, Len(t)) = suffix

\* "." in name
HasDot(t) == \E k \in 1..Len(t) : t[k] = "."
LastDot(t) == CHOOSE k \in 1..Len(t) : t[k] = "." /\ \A j \in (k + 1)..Len(t) : t[j] # "."

\* name.rsplit(".", 1): the parts before and after the last dot, or the
\* whole name when it holds no dot.
RSplitDot(t) ==
    IF HasDot(t)
    THEN <<SubSeq(t, 1, LastDot(t) - 1), SubSeq(t, LastDot(t) + 1, Len(t))>>
    ELSE <<t>>

\* Line 376: ext = name.lower().rsplit(".",1)[-1] if "." in name else ""
Ext(name) ==
    IF HasDot(name) THEN RSplitDot(Lower(name))[Len(RSplitDot(Lower(name)))] ELSE <<>>

\* Line 377.
ImageExts == 
    {<<"j", "p", "g">>,
     <<"j", "p", "e", "g">>,
     <<"p", "n", "g">>,
     <<"b", "m", "p">>,
     <<"t", "i", "f", "f">>,
     <<"g", "i", "f">>}

\* Line 379: base = name.rsplit(".",1)[0]
Base(name) == RSplitDot(name)[1]

\* Line 380: f"{base}_processed.jpg"
ProcessedName(name) == Base(name) \o <<"_", "p", "r", "o", "c", "e", "s", "s", "e", "d", ".", "j", "p", "g">>

\* Entry names and contents the input archives are built from.
EntryNames == 
    {<<"a", ".", "p", "n", "g">>,
     <<"a", ".", "j", "p", "g">>,
     <<"a", "_", "p", "r", "o", "c", "e", "s", "s", "e", "d", ".", "j", "p", "g">>,
     <<"B", ".", "P", "N", "G">>,
     <<"d", "/">>,
     <<"x", ".", "t", "x", "t">>,
     <<"R", "E", "A", "D", "M", "E">>}
EntryData == ImageInputs
Entries == [name : EntryNames, data : EntryData]

Archives == UNION {[1..n -> Entries] : n \in 0..MaxEntries}

\* The handler is registered for filters.Document.FileExtension("zip").
DocFileNames == {<<"b", ".", "z", "i", "p">>, <<"B", ".", "Z", "I", "P">>}

\* zin.namelist(): every entry's name, in archive order, repeats included.
namelist(archive) == [k \in 1..Len(archive) |-> archive[k].name]

\* zin.read(name): NameToInfo keeps, for a name, the last entry read from
\* the central directory.
read(archive, name) ==
    archive[CHOOSE k \in 1..Len(archive) :
               /\ archive[k].name = name
               /\ \A j \in (k + 1)..Len(archive) : archive[j].name # name].data

ZipLeft(pc, error) ==
    /\ zip_pc' = pc
    /\ zip_error' = error
    /\ UNCHANGED <<doc_file_name, zin, zip_k, zout, zip_reply>>

\* Lines 358-360: the file name check.
ZipCheckName ==
    /\ zip_pc = "start"
    /\ IF EndsWith(Lower(doc_file_name), <<".", "z", "i", "p">>)
       THEN ZipLeft("open", "none")
       ELSE ZipLeft("rejected", "none")

\* Lines 362-371: the download, and both archives opened; bytes that are no
\* archive raise BadZipFile.
ZipOpen ==
    /\ zip_pc = "open"
    /\ \E valid \in BOOLEAN :
          IF valid
          THEN /\ zip_pc' = "loop"
               /\ zip_k' = 0
               /\ zout' = <<>>
               /\ UNCHANGED <<doc_file_name, zin, zip_error, zip_reply>>
          ELSE ZipLeft("raised", "bad_zip")

\* Lines 372-382: one turn of `for name in zin.namelist()`; `ok`: no step of
\* the image pipeline other than the decode raises.
ZipEntry ==
    /\ zip_pc = "loop"
    /\ zip_k < Len(zin)
    /\ LET name == namelist(zin)[zip_k + 1]
           data == read(zin, name)
       IN IF EndsWith(name, <<"/">>)
          THEN /\ zip_k' = zip_k + 1
               /\ UNCHANGED <<zip_pc, doc_file_name, zin, zout, zip_error, zip_reply>>
          ELSE IF Ext(name) \in ImageExts
          THEN \E ok \in BOOLEAN :
                 IF ~DecodesAsImage(data)
                 THEN ZipLeft("raised", "decode")
                 ELSE IF ~ok
                 THEN ZipLeft("raised", "pipeline")
                 ELSE /\ zout' = Append(zout, [name |-> ProcessedName(name),
                                                data |-> generate_variations(data, 1)[1]])
                      /\ zip_k' = zip_k + 1
                      /\ UNCHANGED <<zip_pc, doc_file_name, zin, zip_error, zip_reply>>
          ELSE /\ zout' = Append(zout, [name |-> name, data |-> data])
               /\ zip_k' = zip_k + 1
               /\ UNCHANGED <<zip_pc, doc_file_name, zin, zip_error, zip_reply>>

\* Lines 383-389: the output archive is closed and sent back.
ZipReply ==
    /\ zip_pc = "loop"
    /\ zip_k = Len(zin)
    /\ zip_pc' = "done"
    /\ zip_reply' = [sent |-> TRUE, document |-> zout,
                     filename |-> <<"p", "r", "o", "c", "e", "s", "s", "e", "d", "_">> \o doc_file_name]
    /\ UNCHANGED <<doc_file_name, zin, zip_k, zout, zip_error>>

NoReply == [sent |-> FALSE, document |-> <<>>, filename |-> <<>>]

ZipIdle ==
    /\ zip_pc = "absent"
    /\ doc_file_name = <<>>
    /\ zin = <<>>
    /\ zip_k = 0
    /\ zout = <<>>
    /\ zip_error = "none"
    /\ zip_reply = NoReply

ZipCall ==
    /\ zip_pc = "start"
    /\ doc_file_name \in DocFileNames
    /\ zin \in Archives
    /\ zip_k = 0
    /\ zout = <<>>
    /\ zip_error = "none"
    /\ zip_reply = NoReply

\* One run of zip_handler.
InitZip == ImgIdle /\ VidIdle /\ VIDEO_SUPPORT = TRUE /\ SesIdle /\ ZipCall

NextZip ==
    \/ ZipCheckName /\ UNCHANGED <<img_vars, vid_vars, ses_vars>>
    \/ ZipOpen /\ UNCHANGED <<img_vars, vid_vars, ses_vars>>
    \/ ZipEntry /\ UNCHANGED <<img_vars, vid_vars, ses_vars>>
    \/ ZipReply /\ UNCHANGED <<img_vars, vid_vars, ses_vars>>

SpecZip == InitZip /\ [][NextZip]_vars

\* One user's session.
Init == ImgIdle /\ VidIdle /\ VIDEO_SUPPORT \in BOOLEAN /\ SesIdle /\ ZipIdle

Next ==
    \/ start /\ UNCHANGED <<img_vars, vid_vars, zip_vars>>
    \/ \E text \in CountTexts :
          handle_count_selection(text) /\ UNCHANGED <<img_vars, vid_vars, zip_vars>>
    \/ \E decodes, ok \in BOOLEAN :
          handle_photo(decodes, ok) /\ UNCHANGED <<img_vars, vid_vars, zip_vars>>
    \/ \E clip \in VideoInputs, ok \in BOOLEAN :
          handle_video(clip, ok) /\ UNCHANGED <<img_vars, vid_vars, zip_vars>>
    \/ PressChoose /\ UNCHANGED <<img_vars, vid_vars, zip_vars>>
    \/ CraftedChoose /\ UNCHANGED <<img_vars, vid_vars, zip_vars>>

Spec == Init /\ [][Next]_vars

\* The core is entered with an image (one call of generate_variations) or
\* with videos (the calls of process_video_variations).
InitCore ==
    /\ SesIdle /\ ZipIdle
    /\ \/ ImgCall /\ VidIdle /\ VIDEO_SUPPORT \in BOOLEAN
       \/ ImgIdle /\ VidSingleCall

NextCore ==
    \/ ImgOpen /\ UNCHANGED <<vid_vars, ses_vars, zip_vars>>
    \/ ImgLoop /\ UNCHANGED <<vid_vars, ses_vars, zip_vars>>
    \/ ImgStepOk /\ UNCHANGED <<vid_vars, ses_vars, zip_vars>>
    \/ ImgStepFail /\ UNCHANGED <<vid_vars, ses_vars, zip_vars>>
    \/ \E r \in Requests : VidCall(r) /\ UNCHANGED <<img_vars, ses_vars, zip_vars>>
    \/ \E r \in Requests : VidMkdtemp(r) /\ UNCHANGED <<img_vars, ses_vars, zip_vars>>
    \/ \E r \in Requests : VidWriteInput(r) /\ UNCHANGED <<img_vars, ses_vars, zip_vars>>
    \/ \E r \in Requests : VidLoad(r) /\ UNCHANGED <<img_vars, ses_vars, zip_vars>>
    \/ \E r \in Requests : VidLoop(r) /\ UNCHANGED <<img_vars, ses_vars, zip_vars>>
    \/ \E r \in Requests : VidCreate(r) /\ UNCHANGED <<img_vars, ses_vars, zip_vars>>
    \/ \E r \in Requests : VidExport(r) /\ UNCHANGED <<img_vars, ses_vars, zip_vars>>
    \/ \E r \in Requests : VidCollect(r) /\ UNCHANGED <<img_vars, ses_vars, zip_vars>>
    \/ \E r \in Requests : VidExcept(r) /\ UNCHANGED <<img_vars, ses_vars, zip_vars>>
    \/ \E r \in Requests : VidExit(r) /\ UNCHANGED <<img_vars, ses_vars, zip_vars>>

SpecCore == InitCore /\ [][NextCore]_vars

\* The video calls of two requests, interleaved statement by statement.
InitTemp == ImgIdle /\ VidConcurrentCalls /\ SesIdle /\ ZipIdle

NextTemp ==
    \/ \E r \in Requests : VidCall(r) /\ UNCHANGED <<img_vars, ses_vars, zip_vars>>
    \/ \E r \in Requests : VidMkdtemp(r) /\ UNCHANGED <<img_vars, ses_vars, zip_vars>>
    \/ \E r \in Requests : VidWriteInput(r) /\ UNCHANGED <<img_vars, ses_vars, zip_vars>>
    \/ \E r \in Requests : VidLoad(r) /\ UNCHANGED <<img_vars, ses_vars, zip_vars>>
    \/ \E r \in Requests : VidLoop(r) /\ UNCHANGED <<img_vars, ses_vars, zip_vars>>
    \/ \E r \in Requests : VidCreate(r) /\ UNCHANGED <<img_vars, ses_vars, zip_vars>>
    \/ \E r \in Requests : VidExport(r) /\ UNCHANGED <<img_vars, ses_vars, zip_vars>>
    \/ \E r \in Requests : VidCollect(r) /\ UNCHANGED <<img_vars, ses_vars, zip_vars>>
    \/ \E r \in Requests : VidExcept(r) /\ UNCHANGED <<img_vars, ses_vars, zip_vars>>
    \/ \E r \in Requests : VidExit(r) /\ UNCHANGED <<img_vars, ses_vars, zip_vars>>

SpecTemp == InitTemp /\ [][NextTemp]_vars

\* ------------------------------------------------------------------------
\* Properties of the core (SpecCore, SpecTemp)
\* ------------------------------------------------------------------------

VidInScope(r) ==
    vid[r].pc \in {"write_input", "load", "loop", "create", "export", "collect",
                   "except", "exit_ok", "exit_err"}

VidExited(r) == vid[r].pc \in {"returned", "raised"}

\* A list of exactly `count` buffers, the k-th made by loop iteration k-1.
FullOrderedList(result, count, Iter(_)) ==
    /\ result.kind = "list"
    /\ Len(result.value) = count
    /\ \A k \in 1..count : Iter(result.value[k]) = k - 1

IterOfImage(b) == b.iter
IdxOfVideo(b) == b.idx

\* C1: a call of generate_variations or process_video_variations ends in one
\* of two ways: it returns a list of exactly `count` buffers, the buffer at
\* position i made by loop iteration i, or it raises and hands over no list.
\* No list is handed over before the return, and none is ever shorter than
\* `count`.
C1_AllOrNothing ==
    /\ img_pc = "returned" => FullOrderedList(img_result, img_count, IterOfImage)
    /\ img_pc = "raised" => img_result = ErrorResult
    /\ img_result.kind = "list" => img_pc = "returned"
    /\ \A r \in Requests :
          /\ vid[r].pc = "returned" =>
                FullOrderedList(vid[r].result, vid[r].count, IdxOfVideo)
          /\ vid[r].pc = "raised" => vid[r].result = ErrorResult
          /\ vid[r].result.kind = "list" => vid[r].pc = "returned"

\* C1's case: the third of five image variations failed after two buffers
\* had been built, and the call raised.
C1_Witness ==
    /\ img_pc = "raised"
    /\ img_count = MaxCount
    /\ Len(img_variations) = 2
    /\ img_i = 2

\* C3 as stated: the effect class of variation index i is the class of
\* i mod 4, so index 4 gets the color-only class like index 0.
C3_EffectByModulo4 ==
    \A r \in Requests :
       /\ \A k \in 1..Len(vid[r].variations) :
             LET b == vid[r].variations[k]
             IN b.effect = CASE b.idx % 4 = 0 -> "colorx"
                             [] b.idx % 4 = 1 -> "lum_contrast"
                             [] b.idx % 4 = 2 -> "gamma_corr"
                             [] OTHER -> "colorx+lum_contrast"
       /\ vid[r].pc \in {"export", "collect"} =>
             vid[r].clip.effect = CASE vid[r].i % 4 = 0 -> "colorx"
                                    [] vid[r].i % 4 = 1 -> "lum_contrast"
                                    [] vid[r].i % 4 = 2 -> "gamma_corr"
                                    [] OTHER -> "colorx+lum_contrast"

EffectTable(i) ==
    CASE i = 0 -> "colorx"
      [] i = 1 -> "lum_contrast"
      [] i = 2 -> "gamma_corr"
      [] i >= 3 -> "colorx+lum_contrast"

\* C3 amended: the buffer at position k of a batch is variation index k-1,
\* and the effect class is color-only for index 0, luminance/contrast for
\* index 1, gamma for index 2 and the milder combination for every index
\* from 3 on (index 4 included).
C3_EffectByIfChain ==
    \A r \in Requests :
       /\ \A k \in 1..Len(vid[r].variations) :
             /\ vid[r].variations[k].idx = k - 1
             /\ vid[r].variations[k].effect = EffectTable(k - 1)
       /\ vid[r].pc \in {"export", "collect"} =>
             vid[r].clip.effect = EffectTable(vid[r].i)

\* C3's case: the fifth variation of a batch of five (index 4) was rendered.
C3_Witness ==
    \E r \in Requests :
       /\ vid[r].pc = "returned"
       /\ Len(vid[r].result.value) = MaxCount
       /\ vid[r].result.value[MaxCount].idx = 4
       /\ vid[r].result.value[MaxCount].effect = "colorx+lum_contrast"

\* C4: once process_video_variations has exited, by return or by exception,
\* the request's temporary directory no longer exists; while the request is
\* inside the with block its directory exists and is its own, and two
\* requests inside the block never hold the same directory.
C4_TempDirReleased ==
    /\ \A r \in Requests :
          VidExited(r) => \A d \in DOMAIN tmpfs : tmpfs[d].owner # r
    /\ \A r \in Requests :
          VidInScope(r) =>
             /\ vid[r].temp_dir \in DOMAIN tmpfs
             /\ tmpfs[vid[r].temp_dir].owner = r
    /\ \A r1, r2 \in Requests :
          (r1 # r2 /\ VidInScope(r1) /\ VidInScope(r2)) =>
             vid[r1].temp_dir # vid[r2].temp_dir

\* C4's case: the export of the second variation failed after the first had
\* been written and read back; the call has exited by exception while the
\* other request is still inside its with block.
C4_Witness ==
    \E r1, r2 \in Requests :
       /\ r1 # r2
       /\ vid[r1].pc = "raised"
       /\ vid[r1].temp_dir # NoDir
       /\ Len(vid[r1].variations) = 1
       /\ VidInScope(r2)

NormalizeSteps(log) ==
    [k \in 1..Len(log) |-> IF log[k] \in Filters THEN "filter" ELSE log[k]]

IsPrefix(a, b) == Len(a) <= Len(b) /\ a = SubSeq(b, 1, Len(a))

NineSteps ==
    <<"resize", "rotate", "jitter", "translate",
      "brightness", "contrast", "color", "sharpness",
      "filter", "noise", "sharpen", "save">>

EightSteps ==
    <<"resize", "rotate", "jitter", "translate",
      "brightness", "contrast", "color", "sharpness",
      "filter", "noise", "save">>

\* C7 as stated: every variation runs, in this order and once each, resize,
\* rotate, channel gain, translation, the four enhancement passes, one
\* filter, noise, one more fixed sharpening pass, encode.
C7_NineStepOrder ==
    /\ \A k \in 1..Len(img_variations) :
          NormalizeSteps(img_variations[k].steps) = NineSteps
    /\ img_pc \in {Pipeline[k] : k \in 1..Len(Pipeline)} =>
          IsPrefix(NormalizeSteps(img_log), NineSteps)

\* C7 amended: every variation runs, in this order and once each, resize,
\* rotate, channel gain, translation, the four enhancement passes
\* (brightness, contrast, color, sharpness), one filter, noise, encode: the
\* encode follows the noise step directly, with no sharpening pass and no
\* resampling step in between.
C7_EightStepOrder ==
    /\ \A k \in 1..Len(img_variations) :
          NormalizeSteps(img_variations[k].steps) = EightSteps
    /\ img_pc \in {Pipeline[k] : k \in 1..Len(Pipeline)} =>
          IsPrefix(NormalizeSteps(img_log), EightSteps)

\* C7's case: a variation went through the whole loop body and was encoded.
C7_Witness ==
    /\ img_pc = "returned"
    /\ Len(img_variations) = 3
    /\ img_variations[3].steps[9] = "DETAIL"

\* ------------------------------------------------------------------------
\* Properties of the session (Spec)
\* ------------------------------------------------------------------------

\* The replies that close a processed request.
Completions == {"select_your_favorite", "processing_complete"}

\* C2: a photo or video handled while the stored count is outside 1..5 is
\* turned down before any variation is made: nothing is sent, and no batch
\* of a size outside 1..5 is ever stored in the session.
C2_OutOfRangeRejected ==
    /\ (last.op \in {"photo", "video"} /\ last.has_count /\ last.count \notin Counts) =>
          (last.reply \notin Completions /\ last.sent = <<>>)
    /\ Has(user_data, "variations") => Len(user_data["variations"]) \in Counts

\* C8: a choose callback delivers a variation only when a batch is stored
\* and its index lies within it, and the delivery removes the batch; any
\* other choose callback sends nothing and leaves the session as it was;
\* and once no batch is stored, only a photo upload stores one again, so
\* every choose callback until then is answered 'expired'.
C8_OneShotSelection ==
    [][ /\ last'.op = "choice" =>
              IF last'.reply = "you_picked"
              THEN /\ Has(user_data, "variations")
                   /\ 0 <= last'.idx
                   /\ last'.idx < Len(user_data["variations"])
                   /\ last'.sent = <<user_data["variations"][last'.idx + 1]>>
                   /\ ~Has(user_data', "variations")
              ELSE /\ last'.reply \in {"variation_expired", "exception"}
                   /\ last'.sent = <<>>
                   /\ user_data' = user_data
                   /\ keyboards' = keyboards
        /\ (~Has(user_data, "variations") /\ last'.op = "choice") =>
              last'.reply # "you_picked"
        /\ (~Has(user_data, "variations") /\ Has(user_data', "variations")) =>
              last'.op = "photo"
      ]_vars

\* C8's case: a button the bot offered was pressed after the stored batch
\* had been taken by an earlier choice, and got the 'expired' reply.
C8_Witness ==
    /\ last.op = "choice"
    /\ last.genuine
    /\ last.reply = "variation_expired"
    /\ ~Has(user_data, "variations")
    /\ Has(keyboards, last.msg)

\* C9: a press of a button offered with batch B (the upload numbered like
\* its message) at index i delivers element i of batch B.
C9_ChoiceFromOwnBatch ==
    (last.op = "choice" /\ last.genuine /\ last.reply = "you_picked") =>
       last.sent = <<SessionBuffer(last.msg, last.idx)>>

\* ------------------------------------------------------------------------
\* Properties of the archive handler (SpecZip)
\* ------------------------------------------------------------------------

\* What one input entry becomes: nothing for a directory marker, one
\* renamed image variation for an image suffix, itself otherwise.
EntryImage(e) ==
    IF EndsWith(e.name, <<"/">>) THEN <<>>
    ELSE IF Ext(e.name) \in ImageExts
    THEN <<[name |-> ProcessedName(e.name), data |-> generate_variations(e.data, 1)[1]]>>
    ELSE <<e>>

RECURSIVE ExpectedArchive(_)
ExpectedArchive(archive) ==
    IF archive = <<>> THEN <<>>
    ELSE EntryImage(Head(archive)) \o ExpectedArchive(Tail(archive))

DistinctNames(archive) ==
    \A i, j \in 1..Len(archive) : i # j => archive[i].name # archive[j].name

\* C5: the archive sent back holds, entry by entry and in order, nothing
\* for an entry whose name ends with '/', one entry <base>_processed.jpg
\* holding one variation of the entry's own content for an image suffix,
\* and the entry itself (same name, same bytes) otherwise; it holds nothing
\* else.
C5_EntryMap ==
    zip_pc = "done" => zip_reply.document = ExpectedArchive(zin)

\* C6: an image-suffixed entry that fails to decode never ends the run: the
\* handler is not left by the decode error.
C6_NoAbortOnDecodeFailure ==
    zip_pc = "raised" => zip_error # "decode"

\* C10: for an input archive with pairwise distinct entry names, the names
\* written to the output archive are pairwise distinct.
C10_DistinctOutputNames ==
    DistinctNames(zin) => DistinctNames(zout)

\* The entry map of C5 when the input names are pairwise distinct.
EntryMapForDistinctNames ==
    (zip_pc = "done" /\ DistinctNames(zin)) => zip_reply.document = ExpectedArchive(zin)

====
